---------------------------- MODULE Spec2Model ----------------------------
(***************************************************************************)
(* A state-machine model of the adaptation_reviewer pipeline:              *)
(*   JSON -> Parquet (transform.py, utils.py), catalog table and abstract  *)
(*   embeddings (process.py), and the paper download loop (cli.py,         *)
(*   download_papers.py).                                                  *)
(*                                                                         *)
(* Each stage has its own specification over its own variables; the other  *)
(* stages' variables are held at their idle values.                        *)
(*                                                                         *)
(* Conventions.  Python sequences are 0-based and TLA+ sequences 1-based:  *)
(* Python index i is index i+1 here.  SQL NULL, Python None and NaN are    *)
(* the value NULL.                                                         *)
(***************************************************************************)
EXTENDS Integers, Sequences, FiniteSets, TLC

NULL == "NULL"
\* a list-valued field that is absent (None, NaN, SQL NULL)
NullList == <<NULL>>
\* An input file's content: a file that cannot be read as gzip-compressed
\* JSON with "items", or the records of its "items"
Corrupt == [ok |-> FALSE, items |-> <<>>]
Items(records) == [ok |-> TRUE, items |-> records]

\* A directory, and a database, is a function from the names present in it
\* to their contents
Nothing == [x \in {} |-> x]
Has(store, name) == name \in DOMAIN store
Put(store, name, content) ==
    [x \in DOMAIN store \cup {name} |->
        IF x = name THEN content ELSE store[x]]
Remove(store, name) == [x \in DOMAIN store \ {name} |-> store[x]]

(* ----------------------------- bounds ---------------------------------- *)
\* rows of the table handed to create_embeddings_abstracts
MaxRows == 3
\* most runs of one build on the same database
MaxRuns == 2

(* ------------------------ generic sequence helpers --------------------- *)
Range(s) == {s[i] : i \in 1..Len(s)}

SeqsUpTo(S, n) == UNION {[1..k -> S] : k \in 0..n}

InjSeqsUpTo(S, n) ==
    {s \in SeqsUpTo(S, n) : \A i, j \in 1..Len(s) : i # j => s[i] # s[j]}

(***************************************************************************)
(* VARIABLES                                                               *)
(***************************************************************************)
VARIABLES
    \* ---- Embedding Builder (process.py create_embeddings_abstracts) ----
    src_table,      \* rows [uuid, abstract] of table <table_name>
    embed_table,    \* the database's embeddings tables: name -> rows
    abstracts,      \* the DataFrame selected at lines 140-145
    embeddings,     \* the array returned by encode, row i for abstracts row i
    embed_i,        \* loop variable of line 164 (1-based)
    embed_pc,       \* "select" | "create" | "insert" | "done" | "raised"
    embed_runs,     \* the embeddings table as each completed run left it
    \* ---- Paper Fetcher (cli.py download, download_papers.py) ----
    papers,         \* the DataFrame of cli.py:153, rows [doi, uuid]
    pdf_dir,        \* path_pdfs: file name -> the file's content
    dl_i,           \* loop variable of cli.py:156 (1-based)
    dl_pc,          \* "loop" | "done" | "raised"
    net_log,        \* network operations so far, in order: [op, row]
    handed,         \* rows handed to download_paper so far, in order
    skipped,        \* <<row, content>>: rows whose target existed when handed
    failed,         \* rows whose rotation or retrieval raised
    \* ---- Batch Writer (transform.py json_records_to_parquet) ----
    list_files,     \* the argument list_files of a direct call
    file_records,   \* input file -> Corrupt or Items(its records)
    flatten_authors,
    output_dir,     \* output file name -> the Parquet file
    bw_pc,          \* "call" | "returned" | "raised" | "idle"
    \* ---- Chunk Scheduler (transform.py generate_parquet_from_list) ----
    compressed_json_files,  \* the argument, in the order it is passed
    rows_per_file,
    n_jobs,
    file_chunks,    \* the batches of line 178
    task,           \* chunk -> "pending" | "running" | "done" | "failed" | "killed"
    wrote,          \* chunk -> the file that chunk's worker wrote
    tr_pc,          \* "start" | "parallel" | "done" | "raised" | "idle"
    \* ---- Catalog Builder (process.py create_table) ----
    parquet_rows,   \* the rows read_parquet yields
    keyords,        \* [is_list, value]: a list of patterns or one pattern
    create_flag,    \* the argument create_table
    catalog_table,  \* the database's catalog tables: name -> rows
    returned_df,    \* the DataFrame returned when create_table is False
    cat_pc,         \* "start" | "dropped" | "done" | "raised" | "idle"
    cat_runs        \* the catalog table as each completed build left it

embedVars == <<src_table, embed_table, abstracts, embeddings, embed_i, embed_pc,
               embed_runs>>
dlVars == <<papers, pdf_dir, dl_i, dl_pc, net_log, handed, skipped, failed>>
ioVars == <<file_records, flatten_authors, output_dir>>
bwVars == <<list_files, bw_pc>>
trVars == <<compressed_json_files, rows_per_file, n_jobs, file_chunks, task,
            wrote, tr_pc>>
catVars == <<parquet_rows, keyords, create_flag, catalog_table, returned_df,
             cat_pc, cat_runs>>

vars == <<embedVars, dlVars, ioVars, bwVars, trVars, catVars>>

(***************************************************************************)
(* Embedding Builder                                                       *)
(***************************************************************************)
Uuids == {"u1", "u2", "u3"}
AbstractTexts == {"t1", "t2"}

TableRows == [uuid : Uuids, abstract : AbstractTexts \cup {NULL}]

\* embedding_model.encode: one vector per text; the vector is a function of
\* the text alone
Encode(text) == <<"vec", text>>

EncodeAll(texts) == [i \in 1..Len(texts) |-> Encode(texts[i])]

HasAbstract(row) == row.abstract # NULL

\* process.py:140-145  SELECT key, abstract FROM table WHERE abstract IS NOT NULL
SelectAbstracts(tbl) == SelectSeq(tbl, HasAbstract)

EmbedFrame == UNCHANGED <<dlVars, ioVars, bwVars, trVars, catVars>>

\* A table <table_name>_embed_abstracts left by an earlier run
EmbedName == "papers_embed_abstracts"

StaleEmbedRow == [id |-> "stale", embeddings |-> Encode("stale")]

EmbedIdle ==
    /\ src_table = <<>>
    /\ embed_table = Nothing
    /\ abstracts = <<>>
    /\ embeddings = <<>>
    /\ embed_i = 1
    /\ embed_pc = "done"
    /\ embed_runs = <<>>

EmbedInit ==
    /\ src_table \in SeqsUpTo(TableRows, MaxRows)
    /\ embed_table \in {Nothing, Put(Nothing, EmbedName, <<StaleEmbedRow>>)}
    /\ abstracts = <<>>
    /\ embeddings = <<>>
    /\ embed_i = 1
    /\ embed_pc = "select"
    /\ embed_runs = <<>>

\* process.py:140-153  select the rows and encode their abstracts
EmbedSelect ==
    /\ embed_pc = "select"
    /\ abstracts' = SelectAbstracts(src_table)
    /\ embeddings' = EncodeAll([i \in 1..Len(SelectAbstracts(src_table)) |->
                                   SelectAbstracts(src_table)[i].abstract])
    /\ embed_pc' = "create"
    /\ UNCHANGED <<src_table, embed_table, embed_i, embed_runs>>
    /\ EmbedFrame

\* CREATE TABLE IF NOT EXISTS: a table of that name is left as it is
CreateIfNotExists(db, name) == IF Has(db, name) THEN db ELSE Put(db, name, <<>>)

\* process.py:159  CREATE OR REPLACE TABLE: an empty table under that name,
\* whatever was there
CreateOrReplace(db, name) == Put(db, name, <<>>)

\* process.py:158-160  CREATE OR REPLACE TABLE ..._embed_abstracts
EmbedCreate ==
    /\ embed_pc = "create"
    /\ embed_table' = CreateOrReplace(embed_table, EmbedName)
    /\ embed_i' = 1
    /\ embed_pc' = "insert"
    /\ UNCHANGED <<src_table, abstracts, embeddings, embed_runs>>
    /\ EmbedFrame

\* process.py:164  range(abstracts.shape[0] - 1): Python i in 0..n-2,
\* here embed_i in 1..n-1
EmbedLoopBound(n) == n - 1

\* process.py:164-168  one iteration of the insert loop
EmbedInsert ==
    /\ embed_pc = "insert"
    /\ embed_i <= EmbedLoopBound(Len(abstracts))
    /\ embed_table' = Put(embed_table, EmbedName,
                          Append(embed_table[EmbedName],
                                 [id |-> abstracts[embed_i].uuid,
                                  embeddings |-> embeddings[embed_i]]))
    /\ embed_i' = embed_i + 1
    /\ UNCHANGED <<src_table, abstracts, embeddings, embed_pc, embed_runs>>
    /\ EmbedFrame

\* process.py:165-168  the statement of an iteration raises (the database
\* rejects or cannot complete the INSERT, the run is interrupted): nothing
\* catches it and nothing undoes the statements already executed
EmbedInsertRaises ==
    /\ embed_pc = "insert"
    /\ embed_i <= EmbedLoopBound(Len(abstracts))
    /\ embed_pc' = "raised"
    /\ UNCHANGED <<src_table, embed_table, abstracts, embeddings, embed_i,
                   embed_runs>>
    /\ EmbedFrame

\* process.py:164  the loop is exhausted and the function returns
EmbedReturn ==
    /\ embed_pc = "insert"
    /\ embed_i > EmbedLoopBound(Len(abstracts))
    /\ embed_pc' = "done"
    /\ embed_runs' = Append(embed_runs, embed_table[EmbedName])
    /\ UNCHANGED <<src_table, embed_table, abstracts, embeddings, embed_i>>
    /\ EmbedFrame

\* cli.py:93-135  the command is run again on the same database
EmbedRerun ==
    /\ embed_pc = "done"
    /\ Len(embed_runs) \in 1..(MaxRuns - 1)
    /\ abstracts' = <<>>
    /\ embeddings' = <<>>
    /\ embed_i' = 1
    /\ embed_pc' = "select"
    /\ UNCHANGED <<src_table, embed_table, embed_runs>>
    /\ EmbedFrame

EmbedNext ==
    \/ EmbedSelect
    \/ EmbedCreate
    \/ EmbedInsert
    \/ EmbedInsertRaises
    \/ EmbedReturn
    \/ EmbedRerun

(***************************************************************************)
(* Paper Fetcher                                                           *)
(*                                                                         *)
(* cli.py imports download_paper from adaptation_reviewer.download; the    *)
(* function body available is src/src/download_papers.py, modelled here.   *)
(* The call of cli.py:160 passes the row's doi and uuid and the directory, *)
(* so the target file is named from the row's uuid.                        *)
(***************************************************************************)
PaperDois == {"10.1/a", "10.1/b"}

\* process.py:71  LEFT(sha256(doi), 10): a digest of the doi; equal dois give
\* equal digests, and the model's few dois are taken to have distinct ones
Uuid(doi) == <<"sha256", doi>>

PaperRows == {[doi |-> d, uuid |-> Uuid(d)] : d \in PaperDois}

\* download_papers.py:97-98  the target path, a function of the name arguments
FileName(row) == <<row.uuid, ".pdf">>

PdfNames == {FileName(r) : r \in PaperRows}

\* rows of the table handed to the download command
MaxPapers == 4

\* What the two external calls of one download_paper call may do:
\*   "renew_raises": renew_tor_ip raises (controller unreachable, bad password)
\*   "get_raises"  : scihub_download raises
\*   "get_nofile"  : scihub_download reports its failure itself and returns
\*   "get_ok"      : scihub_download writes the file
Outcomes == {"renew_raises", "get_raises", "get_nofile", "get_ok"}

\* the network operations of row i, as logged: the call of renew_tor_ip
\* (raised: it did not return) and the call of scihub_download
Renew(i) == [op |-> "renew", row |-> i, raised |-> FALSE]
RenewRaises(i) == [op |-> "renew", row |-> i, raised |-> TRUE]
Get(i) == [op |-> "get", row |-> i, raised |-> FALSE]

\* a fetch that retrieves through the identity of the previous request
FetchWithoutRotation(i, row, dir, outcome) ==
    CASE outcome \in {"renew_raises", "get_raises"} ->
           [dir |-> dir, ops |-> <<Get(i)>>, raised |-> TRUE]
      [] outcome = "get_nofile" ->
           [dir |-> dir, ops |-> <<Get(i)>>, raised |-> FALSE]
      [] OTHER ->
           [dir |-> Put(dir, <<row.uuid, ".pdf">>, <<"pdf", row.doi>>),
            ops |-> <<Get(i)>>, raised |-> FALSE]

\* download_papers.py:97-109 with the target absent: rotate, then retrieve
FetchAbsent(i, row, dir, outcome) ==
    CASE outcome = "renew_raises" ->
           [dir |-> dir, ops |-> <<RenewRaises(i)>>, raised |-> TRUE]
      [] outcome = "get_raises" ->
           [dir |-> dir, ops |-> <<Renew(i), Get(i)>>, raised |-> TRUE]
      [] outcome = "get_nofile" ->
           [dir |-> dir, ops |-> <<Renew(i), Get(i)>>, raised |-> FALSE]
      [] OTHER ->
           [dir |-> Put(dir, FileName(row), <<"pdf", row.doi>>),
            ops |-> <<Renew(i), Get(i)>>, raised |-> FALSE]

\* a download_paper that does not look for the target first
DownloadPaperAlways(i, row, dir, outcome) == FetchAbsent(i, row, dir, outcome)

\* download_papers.py:97-109  download_paper, called for row i
DownloadPaper(i, row, dir, outcome) ==
    IF Has(dir, FileName(row))
    THEN [dir |-> dir, ops |-> <<>>, raised |-> FALSE]
    ELSE FetchAbsent(i, row, dir, outcome)

\* cli.py:156  range(len(papers) - 1): Python i in 0..n-2, here dl_i in 1..n-1
DownloadLoopBound(n) == n - 1

DlFrame == UNCHANGED <<embedVars, ioVars, bwVars, trVars, catVars>>

DlIdle ==
    /\ papers = <<>>
    /\ pdf_dir = Nothing
    /\ dl_i = 1
    /\ dl_pc = "done"
    /\ net_log = <<>>
    /\ handed = <<>>
    /\ skipped = {}
    /\ failed = {}

DlInit ==
    /\ papers \in SeqsUpTo(PaperRows, MaxPapers)
    /\ \E present \in SUBSET PdfNames : pdf_dir = [f \in present |-> <<"old">>]
    /\ dl_i = 1
    /\ dl_pc = "loop"
    /\ net_log = <<>>
    /\ handed = <<>>
    /\ skipped = {}
    /\ failed = {}

\* cli.py:156-162  one iteration: hand row dl_i to download_paper; an
\* exception leaves the loop and the command
DownloadStep ==
    /\ dl_pc = "loop"
    /\ dl_i <= DownloadLoopBound(Len(papers))
    /\ \E outcome \in Outcomes :
         LET row == papers[dl_i]
             r == DownloadPaper(dl_i, row, pdf_dir, outcome)
         IN /\ handed' = Append(handed, dl_i)
            /\ skipped' = IF Has(pdf_dir, FileName(row))
                          THEN skipped \cup {<<dl_i, pdf_dir[FileName(row)]>>}
                          ELSE skipped
            /\ pdf_dir' = r.dir
            /\ net_log' = net_log \o r.ops
            /\ failed' = IF r.raised THEN failed \cup {dl_i} ELSE failed
            /\ dl_pc' = IF r.raised THEN "raised" ELSE "loop"
            /\ dl_i' = IF r.raised THEN dl_i ELSE dl_i + 1
    /\ UNCHANGED papers
    /\ DlFrame

\* cli.py:156,164  the range is exhausted and the command returns
DownloadReturn ==
    /\ dl_pc = "loop"
    /\ dl_i > DownloadLoopBound(Len(papers))
    /\ dl_pc' = "done"
    /\ UNCHANGED <<papers, pdf_dir, dl_i, net_log, handed, skipped, failed>>
    /\ DlFrame

DlNext == DownloadStep \/ DownloadReturn


(***************************************************************************)
(* Batch Writer and Author Flattener                                       *)
(*                                                                         *)
(* An input file is a path <dir>/<stem>.json.gz: [dir, stem], the stem a   *)
(* string of decimal digits (cli.py:50 collects the paths recursively, so  *)
(* two directories may hold files of the same stem).  A record is          *)
(* [doi, author]: author is NullList (field absent) or a list of author    *)
(* entries, each entry standing for its {given, family, affiliation}.      *)
(* An output file name <min>_<max>.parquet is the pair <<min, max>>.       *)
(***************************************************************************)
Dirs == {"a", "b"}
Stems == {<<1>>, <<2>>, <<1, 0>>}
Files == [dir : Dirs, stem : Stems]

\* int(x.stem.split(".")[0]): the number a digit string denotes
RECURSIVE StemInt(_)
StemInt(digits) ==
    IF digits = <<>> THEN 0
    ELSE 10 * StemInt(SubSeq(digits, 1, Len(digits) - 1)) + digits[Len(digits)]

\* list.sort(key=...): stable, ascending by key; Insert puts x after the
\* elements whose key is not larger
RECURSIVE InsertByStem(_, _)
InsertByStem(sorted, x) ==
    IF sorted = <<>> THEN <<x>>
    ELSE IF StemInt(Head(sorted).stem) <= StemInt(x.stem)
         THEN <<Head(sorted)>> \o InsertByStem(Tail(sorted), x)
         ELSE <<x>> \o sorted

RECURSIVE SortFrom(_, _)
SortFrom(sorted, rest) ==
    IF rest = <<>> THEN sorted
    ELSE SortFrom(InsertByStem(sorted, Head(rest)), Tail(rest))

\* transform.py:94 and :170  sort(key=lambda x: int(x.stem.split(".")[0]))
SortByStem(files) == SortFrom(<<>>, files)

\* most author entries of one record in the inputs
MaxAuthors == 5
\* transform.py:120  x[:4]
EtAlLimit == 4

RecordDois == {"10.1/a", "10.1/b"}
\* the order pandas sorts the pivot's index in
DoiOrder == <<"10.1/a", "10.1/b">>

AuthorNames == <<"A1", "A2", "A3", "A4", "A5", "A6", "A7", "A8">>

Ascending(n) == [i \in 1..n |-> AuthorNames[i]]
Descending(n) == [i \in 1..n |-> AuthorNames[n + 1 - i]]

AuthorLists ==
    {NullList} \cup {Ascending(n) : n \in 0..MaxAuthors}
           \cup {Descending(n) : n \in 2..MaxAuthors}

Records == [doi : RecordDois, author : AuthorLists]

\* the record every file holds where the records do not matter
PlainRecord == [doi |-> "10.1/a", author |-> <<"A1">>]

Min2(a, b) == IF a <= b THEN a ELSE b

\* transform.py:102-103  the records of the files, concatenated in list order
RECURSIVE ConcatRecords(_, _)
ConcatRecords(files, recs) ==
    IF files = <<>> THEN <<>>
    ELSE recs[Head(files)].items \o ConcatRecords(Tail(files), recs)

\* transform.py:117  ~df.author.isna()
IsAuthorNotNa(r) == r.author # NullList

\* transform.py:120  x[:4]
TruncateAuthors(df) ==
    [i \in 1..Len(df) |->
        [df[i] EXCEPT !.author = SubSeq(@, 1, Min2(Len(@), EtAlLimit))]]

\* utils.py:71  df.explode("author"): one row per list element, and one row
\* holding NaN for an empty list
RECURSIVE Explode(_)
Explode(df) ==
    IF df = <<>> THEN <<>>
    ELSE (IF Head(df).author = <<>>
          THEN <<[doi |-> Head(df).doi, author |-> NULL]>>
          ELSE [i \in 1..Len(Head(df).author) |->
                   [doi |-> Head(df).doi, author |-> Head(df).author[i]]])
         \o Explode(Tail(df))

\* utils.py:75  groupby("doi").cumcount() + 1
AuthNum(ex, e) == Cardinality({j \in 1..e : ex[j].doi = ex[e].doi})

MaxOf(S) == IF S = {} THEN 0 ELSE CHOOSE m \in S : \A x \in S : x <= m

\* utils.py:78-85  the pivot's columns: one set per author number present
NumAuthorColumns(ex) == MaxOf({AuthNum(ex, e) : e \in 1..Len(ex)})

\* utils.py:78-82  the pivot's row of one doi: author number -> entry
PivotRow(ex, doi) ==
    [k \in 1..NumAuthorColumns(ex) |->
        IF \E e \in 1..Len(ex) : ex[e].doi = doi /\ AuthNum(ex, e) = k
        THEN ex[CHOOSE e \in 1..Len(ex) :
                    ex[e].doi = doi /\ AuthNum(ex, e) = k].author
        ELSE NULL]

\* utils.py:94  df_auth.merge(df, on doi): for each pivot row, in index
\* order, the rows of df with its doi
RECURSIVE MergeOnDoi(_, _, _)
MergeOnDoi(dois, ex, df) ==
    IF dois = <<>> THEN <<>>
    ELSE LET d == Head(dois)
             mine == SelectSeq(df, LAMBDA r : r.doi = d)
         IN [i \in 1..Len(mine) |->
                [doi |-> d, author |-> mine[i].author, cols |-> PivotRow(ex, d)]]
            \o MergeOnDoi(Tail(dois), ex, df)

\* utils.py:78-82  pivot(values=["given", "family", "affiliation"]) needs
\* those columns: they exist only when some exploded row holds an entry
PivotRaises(ex) == \A e \in 1..Len(ex) : ex[e].author = NULL

\* utils.py:70-97  flatten_author
FlattenAuthor(df) ==
    LET ex == Explode(df)
    IN IF PivotRaises(ex)
       THEN [raised |-> TRUE, rows |-> <<>>]
       ELSE [raised |-> FALSE, rows |-> MergeOnDoi(DoiOrder, ex, df)]

\* the rows of a frame whose authors were not flattened: no author columns
Unflattened(df) ==
    [i \in 1..Len(df) |->
        [doi |-> df[i].doi, author |-> df[i].author, cols |-> <<>>]]

\* transform.py:102-122  the frame written, from the files in list order
BuildFrame(files, recs, flatten) ==
    IF \E i \in 1..Len(files) : recs[files[i]] = Corrupt
    THEN [raised |-> TRUE, rows |-> <<>>]
    ELSE LET df == ConcatRecords(files, recs)
         IN IF flatten
            THEN FlattenAuthor(TruncateAuthors(SelectSeq(df, IsAuthorNotNa)))
            ELSE [raised |-> FALSE, rows |-> Unflattened(df)]

\* transform.py:95-128  the file written from the list once sorted: its name
\* from the first and last stems, its rows from the frame; or that the call
\* raised (list_files[0] of an empty list, an unreadable file, the pivot)
WriteBatchFile(files, recs, flatten) ==
    IF files = <<>>
    THEN [raised |-> TRUE]
    ELSE LET frame == BuildFrame(files, recs, flatten)
         IN IF frame.raised
            THEN [raised |-> TRUE]
            ELSE [raised |-> FALSE,
                  name |-> <<StemInt(files[1].stem),
                             StemInt(files[Len(files)].stem)>>,
                  file |-> [files |-> files, rows |-> frame.rows,
                            complete |-> TRUE]]

\* a writer that takes the list in the order it was passed
JsonRecordsToParquetNoSort(files, recs, flatten) ==
    WriteBatchFile(files, recs, flatten)

\* transform.py:92-128  json_records_to_parquet
JsonRecordsToParquet(files, recs, flatten) ==
    WriteBatchFile(SortByStem(files), recs, flatten)

\* most files in the list of a direct call of the writer
MaxChunkFiles == 3
\* most records in the files of a call whose records vary
MaxRecords == 2

BwFrame == UNCHANGED <<embedVars, dlVars, trVars, catVars>>

BwIdle ==
    /\ list_files = <<>>
    /\ bw_pc = "idle"

IoIdle ==
    /\ file_records = [f \in Files |-> Items(<<>>)]
    /\ flatten_authors = FALSE
    /\ output_dir = Nothing

\* a call on any list of distinct paths in any order; every file holds the
\* plain record or cannot be read
BwInitFiles ==
    /\ list_files \in InjSeqsUpTo(Files, MaxChunkFiles)
    /\ \E bad \in SUBSET Range(list_files) :
         file_records = [f \in Files |->
                            IF f \in bad THEN Corrupt
                            ELSE IF f \in Range(list_files)
                                 THEN Items(<<PlainRecord>>) ELSE Items(<<>>)]

\* a call on two files, passed in descending order, that hold any records
File1 == [dir |-> "a", stem |-> <<1>>]
File2 == [dir |-> "a", stem |-> <<2>>]

BwInitRecords ==
    /\ list_files = <<File2, File1>>
    /\ \E recs \in SeqsUpTo(Records, MaxRecords) :
       \E cut \in 0..Len(recs) :
         file_records = [f \in Files |->
                            IF f = File1 THEN Items(SubSeq(recs, 1, cut))
                            ELSE IF f = File2
                                 THEN Items(SubSeq(recs, cut + 1, Len(recs)))
                                 ELSE Items(<<>>)]

BwInit ==
    /\ BwInitFiles \/ BwInitRecords
    /\ flatten_authors \in BOOLEAN
    /\ output_dir = Nothing
    /\ bw_pc = "call"

\* transform.py:84-132  one call of json_records_to_parquet
BatchWrite ==
    /\ bw_pc = "call"
    /\ LET r == JsonRecordsToParquet(list_files, file_records, flatten_authors)
       IN IF r.raised
          THEN /\ bw_pc' = "raised"
               /\ UNCHANGED output_dir
          ELSE /\ bw_pc' = "returned"
               /\ output_dir' = Put(output_dir, r.name, r.file)
    /\ UNCHANGED <<list_files, file_records, flatten_authors>>
    /\ BwFrame

BwNext == BatchWrite


(***************************************************************************)
(* Chunk Scheduler                                                         *)
(***************************************************************************)
\* transform.py:142  json_file_record_default
JsonFileRecordDefault == 5000

\* rows_per_file values: chunk sizes 0, 1, 2 and 200
RowsPerFileChoices == {4999, 5000, 10000, 1000000}

NJobsChoices == {1, 2}

\* most paths handed to generate_parquet_from_list
MaxInput == 3

\* transform.py:172
ChunkSize(rpf) == rpf \div JsonFileRecordDefault

\* transform.py:178  itertools.batched(files, n), n >= 1: consecutive tuples
\* of n elements, the last one shorter when the list does not divide
Batched(files, n) ==
    LET count == (Len(files) + n - 1) \div n
    IN [k \in 1..count |->
           SubSeq(files, (k - 1) * n + 1, Min2(k * n, Len(files)))]

TrFrame == UNCHANGED <<embedVars, dlVars, bwVars, catVars>>

TrIdle ==
    /\ compressed_json_files = <<>>
    /\ rows_per_file = JsonFileRecordDefault
    /\ n_jobs = 1
    /\ file_chunks = <<>>
    /\ task = <<>>
    /\ wrote = Nothing
    /\ tr_pc = "idle"

\* any list of distinct paths in any order; at most one file cannot be read
TrInit ==
    /\ compressed_json_files \in InjSeqsUpTo(Files, MaxInput)
    /\ \E bad \in {{}} \cup {{f} : f \in Range(compressed_json_files)} :
         file_records = [f \in Files |->
                            IF f \in bad THEN Corrupt
                            ELSE IF f \in Range(compressed_json_files)
                                 THEN Items(<<PlainRecord>>) ELSE Items(<<>>)]
    /\ flatten_authors \in BOOLEAN
    /\ output_dir = Nothing
    /\ rows_per_file \in RowsPerFileChoices
    /\ n_jobs \in NJobsChoices
    /\ file_chunks = <<>>
    /\ task = <<>>
    /\ wrote = Nothing
    /\ tr_pc = "start"

Chunks == 1..Len(file_chunks)

\* transform.py:168-178  sort, then batch; batched raises ValueError for a
\* chunk size below one
TransformStart ==
    /\ tr_pc = "start"
    /\ IF ChunkSize(rows_per_file) < 1
       THEN /\ tr_pc' = "raised"
            /\ UNCHANGED <<file_chunks, task, wrote>>
       ELSE LET chunks == Batched(SortByStem(compressed_json_files),
                                  ChunkSize(rows_per_file))
            IN /\ file_chunks' = chunks
               /\ task' = [k \in 1..Len(chunks) |-> "pending"]
               /\ wrote' = Nothing
               /\ tr_pc' = "parallel"
    /\ UNCHANGED <<compressed_json_files, rows_per_file, n_jobs, ioVars>>
    /\ TrFrame

\* transform.py:185-190  Parallel hands the next chunk, in order, to a free
\* worker; with one job the calls run in the caller, one after the other
Dispatch(k) ==
    /\ tr_pc = "parallel"
    /\ task[k] = "pending"
    /\ \A j \in 1..(k - 1) : task[j] # "pending"
    /\ Cardinality({j \in Chunks : task[j] = "running"}) < n_jobs
    /\ n_jobs = 1 => \A j \in Chunks : task[j] # "failed"
    /\ task' = [task EXCEPT ![k] = "running"]
    /\ UNCHANGED <<compressed_json_files, rows_per_file, n_jobs, file_chunks,
                   wrote, tr_pc, ioVars>>
    /\ TrFrame

\* what the call of json_records_to_parquet for chunk k writes
Written(k) ==
    JsonRecordsToParquet(file_chunks[k], file_records, flatten_authors)

\* transform.py:186-188  a worker's call of json_records_to_parquet ends
Complete(k) ==
    /\ tr_pc = "parallel"
    /\ task[k] = "running"
    /\ LET r == Written(k)
       IN IF r.raised
          THEN /\ task' = [task EXCEPT ![k] = "failed"]
               /\ UNCHANGED <<output_dir, wrote>>
          ELSE /\ task' = [task EXCEPT ![k] = "done"]
               /\ output_dir' = Put(output_dir, r.name, r.file)
               /\ wrote' = Put(wrote, k, r.file)
    /\ UNCHANGED <<compressed_json_files, rows_per_file, n_jobs, file_chunks,
                   tr_pc, file_records, flatten_authors>>
    /\ TrFrame

\* what a worker killed in the middle of its call leaves of its file
Partial(file) == [file EXCEPT !.rows = <<>>, !.complete = FALSE]

\* transform.py:185  Parallel raises a worker's exception in the caller and
\* ends the workers still running; such a worker has written nothing yet or
\* a part of its file
AbortRun ==
    /\ tr_pc = "parallel"
    /\ \E k \in Chunks : task[k] = "failed"
    /\ \E cut \in SUBSET {k \in Chunks : task[k] = "running"} :
         /\ \A k \in cut : ~Written(k).raised
         /\ output_dir' =
              [nm \in DOMAIN output_dir \cup {Written(k).name : k \in cut} |->
                 IF \E k \in cut : Written(k).name = nm
                 THEN Partial(Written(CHOOSE k \in cut :
                                          Written(k).name = nm).file)
                 ELSE output_dir[nm]]
    /\ task' = [k \in Chunks |-> IF task[k] = "running" THEN "killed"
                                 ELSE task[k]]
    /\ tr_pc' = "raised"
    /\ UNCHANGED <<compressed_json_files, rows_per_file, n_jobs, file_chunks,
                   wrote, file_records, flatten_authors>>
    /\ TrFrame

\* transform.py:190-196  every call has returned: the function returns
TransformReturn ==
    /\ tr_pc = "parallel"
    /\ \A k \in Chunks : task[k] = "done"
    /\ tr_pc' = "done"
    /\ UNCHANGED <<compressed_json_files, rows_per_file, n_jobs, file_chunks,
                   task, wrote, ioVars>>
    /\ TrFrame

TrNext ==
    \/ TransformStart
    \/ \E k \in Chunks : Dispatch(k)
    \/ \E k \in Chunks : Complete(k)
    \/ AbortRun
    \/ TransformReturn


(***************************************************************************)
(* Catalog Builder                                                         *)
(*                                                                         *)
(* A Parquet row is [doi, type, abstract, family_1, given_1]; the columns  *)
(* title and year pass through the query unchanged and are left out.  An   *)
(* abstract is NullList or a list of words; a keyword pattern is a word,   *)
(* and regexp_matches(abstract, word, 'i') finds it in any letter case.    *)
(***************************************************************************)
Words == {"adaptation", "Adaptation", "mortality", "MORTALITY", "Abstract",
          "<p>"}

\* the 'i' option: letter case is ignored
Lower(w) ==
    CASE w = "Adaptation" -> "adaptation"
      [] w = "MORTALITY" -> "mortality"
      [] w = "Abstract" -> "abstract"
      [] OTHER -> w

\* process.py:64,67  regexp_matches(abstract, key, 'i'); NULL for a NULL
\* abstract, which WHERE treats as not true
RegexpMatches(abstract, key) ==
    /\ abstract # NullList
    /\ \E i \in 1..Len(abstract) : Lower(abstract[i]) = Lower(key)

\* process.py:62-67  the keyword condition: every pattern of a list, or the
\* one pattern
MatchesKeywords(abstract, kw) ==
    IF kw.is_list
    THEN \A i \in 1..Len(kw.value) : RegexpMatches(abstract, kw.value[i])
    ELSE RegexpMatches(abstract, kw.value)

\* process.py:86-89  the WHERE clause
Retained(row, kw) ==
    /\ MatchesKeywords(row.abstract, kw)
    /\ row.type = "journal-article"
    /\ row.abstract # NullList
    /\ row.family_1 # NULL

\* process.py:74  family_1 || ', ' || given_1: NULL when an operand is NULL
FirstAuthor(family, given) ==
    IF family = NULL \/ given = NULL THEN NullList
    ELSE <<family, ", ", given>>

IsKeptWord(w) == w \notin {"Abstract", "<p>"}

\* process.py:76-84  the label "Abstract" and the tags are removed
CleanAbstract(abstract) == SelectSeq(abstract, IsKeptWord)

\* process.py:70-84  the projection of one row
Project(row) ==
    [uuid |-> Uuid(row.doi),
     doi |-> row.doi,
     first_author |-> FirstAuthor(row.family_1, row.given_1),
     abstract |-> CleanAbstract(row.abstract)]

\* process.py:69-90  the query's result: the projection of the rows the
\* WHERE clause keeps, in order
RECURSIVE RunQuery(_, _)
RunQuery(rows, kw) ==
    IF rows = <<>> THEN <<>>
    ELSE (IF Retained(Head(rows), kw) THEN <<Project(Head(rows))>> ELSE <<>>)
         \o RunQuery(Tail(rows), kw)

\* process.py:63  " AND ".join([]) is empty: WHERE is followed by AND and
\* the query does not parse
QueryRaises(kw) == kw.is_list /\ kw.value = <<>>

SourceAbstracts ==
    {NullList,
     <<"Adaptation", "MORTALITY">>,
     <<"Abstract", "<p>", "adaptation">>}

\* every row with a family name or a given name; a row with neither is
\* rejected like one with a given name alone
SourceRows ==
    {r \in [doi : RecordDois,
            type : {"journal-article", "book-chapter"},
            abstract : SourceAbstracts,
            family_1 : {NULL, "Smith"},
            given_1 : {NULL, "Jo"}] :
        r.family_1 # NULL \/ r.given_1 # NULL}

KeywordChoices ==
    {[is_list |-> TRUE, value |-> <<"adaptation", "mortality">>],
     [is_list |-> TRUE, value |-> <<>>],
     [is_list |-> FALSE, value |-> "adaptation"]}

\* rows of the Parquet corpus
MaxCorpus == 2

StaleCatalogRow ==
    [uuid |-> Uuid("stale"), doi |-> "stale", first_author |-> NullList,
     abstract |-> <<>>]

TableName == "papers"

CatFrame == UNCHANGED <<embedVars, dlVars, ioVars, bwVars, trVars>>

CatIdle ==
    /\ parquet_rows = <<>>
    /\ keyords = [is_list |-> TRUE, value |-> <<>>]
    /\ create_flag = TRUE
    /\ catalog_table = Nothing
    /\ returned_df = <<>>
    /\ cat_pc = "idle"
    /\ cat_runs = <<>>

CatInit ==
    /\ parquet_rows \in SeqsUpTo(SourceRows, MaxCorpus)
    /\ keyords \in KeywordChoices
    /\ create_flag \in BOOLEAN
    /\ catalog_table \in {Nothing, Put(Nothing, TableName, <<StaleCatalogRow>>)}
    /\ returned_df = <<>>
    /\ cat_pc = "start"
    /\ cat_runs = <<>>

\* process.py:92-98  DROP TABLE IF EXISTS
CatalogDrop ==
    /\ cat_pc = "start"
    /\ create_flag
    /\ catalog_table' = Remove(catalog_table, TableName)
    /\ cat_pc' = "dropped"
    /\ UNCHANGED <<parquet_rows, keyords, create_flag, returned_df, cat_runs>>
    /\ CatFrame

\* process.py:100-103  CREATE TABLE ... AS (query)
CatalogCreate ==
    /\ cat_pc = "dropped"
    /\ IF QueryRaises(keyords)
       THEN /\ cat_pc' = "raised"
            /\ UNCHANGED <<catalog_table, cat_runs>>
       ELSE /\ cat_pc' = "done"
            /\ catalog_table' = Put(catalog_table, TableName,
                                     RunQuery(parquet_rows, keyords))
            /\ cat_runs' = Append(cat_runs, RunQuery(parquet_rows, keyords))
    /\ UNCHANGED <<parquet_rows, keyords, create_flag, returned_df>>
    /\ CatFrame

\* process.py:104-106  the query's rows are returned, no table is touched
CatalogQuery ==
    /\ cat_pc = "start"
    /\ ~create_flag
    /\ IF QueryRaises(keyords)
       THEN /\ cat_pc' = "raised"
            /\ UNCHANGED returned_df
       ELSE /\ cat_pc' = "done"
            /\ returned_df' = RunQuery(parquet_rows, keyords)
    /\ UNCHANGED <<parquet_rows, keyords, create_flag, catalog_table, cat_runs>>
    /\ CatFrame

\* cli.py:68-90  the command is run again on the same database
CatalogRerun ==
    /\ cat_pc = "done"
    /\ Len(cat_runs) \in 1..(MaxRuns - 1)
    /\ cat_pc' = "start"
    /\ UNCHANGED <<parquet_rows, keyords, create_flag, catalog_table,
                   returned_df, cat_runs>>
    /\ CatFrame

CatNext == CatalogDrop \/ CatalogCreate \/ CatalogQuery \/ CatalogRerun

(***************************************************************************)
(* Specifications                                                          *)
(***************************************************************************)
\* create_embeddings_abstracts on any table
InitEmbed == EmbedInit /\ DlIdle /\ IoIdle /\ BwIdle /\ TrIdle /\ CatIdle
SpecEmbed == InitEmbed /\ [][EmbedNext]_vars

\* the download command on any table and any directory
InitDownload == DlInit /\ EmbedIdle /\ IoIdle /\ BwIdle /\ TrIdle /\ CatIdle
SpecDownload == InitDownload /\ [][DlNext]_vars

\* one direct call of json_records_to_parquet
InitBatch == BwInit /\ EmbedIdle /\ DlIdle /\ TrIdle /\ CatIdle
SpecBatch == InitBatch /\ [][BwNext]_vars

\* generate_parquet_from_list with its workers
InitTransform == TrInit /\ EmbedIdle /\ DlIdle /\ BwIdle /\ CatIdle
SpecTransform == InitTransform /\ [][TrNext]_vars

\* create_table on any corpus
InitCatalog == CatInit /\ EmbedIdle /\ DlIdle /\ IoIdle /\ BwIdle /\ TrIdle
SpecCatalog == InitCatalog /\ [][CatNext]_vars

\* a build of either table, possibly run again: create_table on any corpus,
\* or create_embeddings_abstracts on any table
InitRebuild ==
    \/ CatInit /\ EmbedIdle /\ DlIdle /\ IoIdle /\ BwIdle /\ TrIdle
    \/ EmbedInit /\ CatIdle /\ DlIdle /\ IoIdle /\ BwIdle /\ TrIdle
SpecRebuild == InitRebuild /\ [][EmbedNext \/ CatNext]_vars

\* one call of any of the three builders that persist an artifact: the
\* batch writer, create_table, create_embeddings_abstracts
InitAbort ==
    \/ BwInit /\ EmbedIdle /\ CatIdle /\ DlIdle /\ TrIdle
    \/ CatInit /\ EmbedIdle /\ DlIdle /\ IoIdle /\ BwIdle /\ TrIdle
    \/ EmbedInit /\ CatIdle /\ DlIdle /\ IoIdle /\ BwIdle /\ TrIdle
SpecAbort == InitAbort /\ [][BwNext \/ CatNext \/ EmbedNext]_vars

(***************************************************************************)
(* Claims                                                                  *)
(***************************************************************************)

(* C1: when create_embeddings_abstracts has returned, the embeddings table *)
(* has one row per source row with a non-null abstract, and its i-th row   *)
(* pairs the i-th such row's id with that row's vector.                    *)
C1_EmbedRowPerAbstract ==
    embed_pc = "done" =>
        /\ Len(embed_table[EmbedName]) = Len(SelectAbstracts(src_table))
        /\ \A i \in 1..Len(embed_table[EmbedName]) :
              embed_table[EmbedName][i] =
                  [id |-> SelectAbstracts(src_table)[i].uuid,
                   embeddings |-> Encode(SelectAbstracts(src_table)[i].abstract)]

(* C2: when the download command has returned, every row of the table was  *)
(* handed to the fetch step exactly once, in table order.                  *)
C2_EveryRowHandedInOrder ==
    dl_pc = "done" => handed = [i \in 1..Len(papers) |-> i]

(* C3: a row whose target file exists when it is handed to download_paper  *)
(* causes no network operation (no rotation, no retrieval), and its file   *)
(* keeps the content it had.                                               *)
C3_ExistingFileNoNetwork ==
    \A sk \in skipped :
        /\ \A e \in 1..Len(net_log) : net_log[e].row # sk[1]
        /\ Has(pdf_dir, FileName(papers[sk[1]]))
        /\ pdf_dir[FileName(papers[sk[1]])] = sk[2]

\* a row was skipped for its file left by an earlier run, another row of the
\* same command was fetched, and the command has returned
C3_Witness ==
    /\ dl_pc = "done"
    /\ \E sk \in skipped : sk[2] = <<"old">>
    /\ \E e \in 1..Len(net_log) : net_log[e].op = "get"

(* C4: a rotation or retrieval that raises for one row does not end the    *)
(* loop: the command does not stop on the error, and when it returns every *)
(* later row has been handed to the fetch step.                            *)
C4_FailureDoesNotAbort ==
    \A i \in failed :
        /\ dl_pc # "raised"
        /\ dl_pc = "done" =>
              \A j \in (i + 1)..Len(papers) : j \in Range(handed)

StemsOf(files) == {StemInt(files[i].stem) : i \in 1..Len(files)}
MinOf(S) == CHOOSE m \in S : \A x \in S : m <= x

(* C5: for a non-empty input list, once the files are batched every input  *)
(* file is in exactly one batch, every batch but the last has the chunk    *)
(* size, the batches in order make up the sorted list, and the stem ranges *)
(* of two batches do not overlap.                                          *)
C5_BatchesPartitionInput ==
    (tr_pc # "start" /\ compressed_json_files # <<>>) =>
        /\ \A f \in Range(compressed_json_files) :
              Cardinality({k \in Chunks : f \in Range(file_chunks[k])}) = 1
        /\ \A k \in Chunks :
              /\ Len(file_chunks[k]) <= ChunkSize(rows_per_file)
              /\ k < Len(file_chunks) =>
                    Len(file_chunks[k]) = ChunkSize(rows_per_file)
              /\ \A i \in 1..(Len(file_chunks[k]) - 1) :
                    StemInt(file_chunks[k][i].stem)
                        <= StemInt(file_chunks[k][i + 1].stem)
        /\ \A k, l \in Chunks :
              k < l => MaxOf(StemsOf(file_chunks[k]))
                           < MinOf(StemsOf(file_chunks[l]))

(* C6: a call of json_records_to_parquet that returns has written exactly  *)
(* one file, named by the numeric minimum and maximum of the stems of the  *)
(* files it was passed, in whatever order they were passed.                *)
C6_NameIsMinMax ==
    bw_pc = "returned" =>
        DOMAIN output_dir = {<<MinOf(StemsOf(list_files)),
                               MaxOf(StemsOf(list_files))>>}

\* a call that returned for files 2 and 1 passed in that order: 1_2.parquet
C6_Witness ==
    /\ bw_pc = "returned"
    /\ Len(list_files) = 2
    /\ StemInt(list_files[1].stem) = 2
    /\ StemInt(list_files[2].stem) = 1
    /\ DOMAIN output_dir = {<<1, 2>>}

(* C7: when the writer has failed for a chunk the run does not return      *)
(* normally, and once the error is raised every file a worker wrote for    *)
(* another chunk is present with the content that worker gave it.          *)
C7_FailFastKeepsWritten ==
    (\E k \in Chunks : task[k] = "failed") =>
        /\ tr_pc # "done"
        /\ tr_pc = "raised" =>
              \A k \in DOMAIN wrote :
                  /\ Has(output_dir, Written(k).name)
                  /\ output_dir[Written(k).name] = wrote[k]

CatalogRows == catalog_table[TableName]

\* the condition the claim gives for a source row to be retained
C8_Condition(row) ==
    /\ row.abstract # NullList
    /\ IF keyords.is_list
       THEN \A i \in 1..Len(keyords.value) :
               \E w \in 1..Len(row.abstract) :
                   Lower(row.abstract[w]) = Lower(keyords.value[i])
       ELSE \E w \in 1..Len(row.abstract) :
               Lower(row.abstract[w]) = Lower(keyords.value)
    /\ row.type = "journal-article"
    /\ row.family_1 # NULL

(* C8: the catalog holds the projection of exactly the source rows whose   *)
(* abstract matches every pattern in any letter case, whose type is        *)
(* journal-article and whose abstract and first author are present; and    *)
(* every row of the catalog has a non-null first_author.                   *)
C8_ConjunctiveFilter ==
    (cat_pc = "done" /\ create_flag) =>
        /\ CatalogRows =
              [i \in 1..Len(SelectSeq(parquet_rows, C8_Condition)) |->
                  Project(SelectSeq(parquet_rows, C8_Condition)[i])]
        /\ \A i \in 1..Len(CatalogRows) :
              CatalogRows[i].first_author # NullList

(* C9: no two rows of the catalog table have the same uuid.                *)
C9_UniqueUuid ==
    (cat_pc = "done" /\ create_flag) =>
        \A i, j \in 1..Len(CatalogRows) :
            i # j => CatalogRows[i].uuid # CatalogRows[j].uuid

\* the records of the files of the call
InputRecords == ConcatRecords(SortByStem(list_files), file_records)

HasAnAuthor(r) == r.author # NullList /\ r.author # <<>>

(* C10: the file a call of json_records_to_parquet wrote has one row per   *)
(* input record with at least one author when authors are flattened, and   *)
(* one row per input record when they are not.                             *)
C10_RowCount ==
    bw_pc = "returned" =>
        \A nm \in DOMAIN output_dir :
            Len(output_dir[nm].rows) =
                IF flatten_authors
                THEN Len(SelectSeq(InputRecords, HasAnAuthor))
                ELSE Len(InputRecords)

\* the first EtAlLimit authors of a record
FirstFour(r) == SubSeq(r.author, 1, Min2(Len(r.author), EtAlLimit))

\* the rows of the file the call wrote
WrittenRows == output_dir[CHOOSE nm \in DOMAIN output_dir : TRUE].rows

(* C11: with flattening enabled, a record with more than 4 authors has a   *)
(* row in the file written, and that row has exactly 4 author column sets, *)
(* holding the record's first four authors in their order: no fifth set,   *)
(* and no author of position 5 or beyond in any set.                       *)
C11_FourColumnSets ==
    (bw_pc = "returned" /\ flatten_authors) =>
        \A n \in 1..Len(InputRecords) :
            (InputRecords[n].author # NullList
               /\ Len(InputRecords[n].author) > EtAlLimit) =>
                /\ \E i \in 1..Len(WrittenRows) :
                      /\ WrittenRows[i].doi = InputRecords[n].doi
                      /\ WrittenRows[i].author = FirstFour(InputRecords[n])
                /\ \A i \in 1..Len(WrittenRows) :
                      (WrittenRows[i].doi = InputRecords[n].doi
                         /\ WrittenRows[i].author = FirstFour(InputRecords[n]))
                      => WrittenRows[i].cols = FirstFour(InputRecords[n])

\* the rows of the embeddings table
EmbedRows == embed_table[EmbedName]

(* C12: when a build of the catalog table (create_table true) or of the    *)
(* embeddings table has completed, the table exists, every row of it was   *)
(* produced by that run (the catalog is the run's query result; the i-th   *)
(* embeddings row is the run's i-th selected id with its vector), no row   *)
(* of an earlier table of that name is left, and every completed run on    *)
(* the same source left the table the first one left.                      *)
C12_RebuildReplacesWholesale ==
    /\ (cat_pc = "done" /\ create_flag) =>
          /\ Has(catalog_table, TableName)
          /\ CatalogRows = RunQuery(parquet_rows, keyords)
          /\ StaleCatalogRow \notin Range(CatalogRows)
          /\ \A k \in 1..Len(cat_runs) : cat_runs[k] = cat_runs[1]
    /\ (embed_pc = "done" /\ embed_runs # <<>>) =>
          /\ Has(embed_table, EmbedName)
          /\ Len(EmbedRows) <= Len(abstracts)
          /\ \A i \in 1..Len(EmbedRows) :
                EmbedRows[i] = [id |-> abstracts[i].uuid,
                                embeddings |-> embeddings[i]]
          /\ StaleEmbedRow \notin Range(EmbedRows)
          /\ \A k \in 1..Len(embed_runs) : embed_runs[k] = embed_runs[1]

\* a second run of the embeddings build has completed over the table the
\* first run filled
C12_Witness ==
    /\ embed_pc = "done"
    /\ Len(embed_runs) = 2
    /\ Len(embed_runs[1]) >= 1
    /\ Len(EmbedRows) >= 1

(* C13: when a batch writer call, a catalog build or an embeddings build   *)
(* has aborted with an error, its target is not left partly written: the   *)
(* Parquet file or table is absent, or is what it was before the call, or  *)
(* is complete (every file whole; the catalog the query's result; the      *)
(* embeddings table one row per selected abstract).                        *)
C13_NoPartialOutput ==
    /\ bw_pc = "raised" =>
          \A nm \in DOMAIN output_dir : output_dir[nm].complete
    /\ (cat_pc = "raised" /\ create_flag) =>
          \/ ~Has(catalog_table, TableName)
          \/ CatalogRows = (IF cat_runs = <<>> THEN <<StaleCatalogRow>>
                            ELSE cat_runs[Len(cat_runs)])
          \/ CatalogRows = RunQuery(parquet_rows, keyords)
    /\ embed_pc = "raised" =>
          \/ ~Has(embed_table, EmbedName)
          \/ EmbedRows = (IF embed_runs = <<>> THEN <<StaleEmbedRow>>
                          ELSE embed_runs[Len(embed_runs)])
          \/ Len(EmbedRows) = Len(abstracts)

\* the rows handed to download_paper whose target file did not exist then
FetchedRows == Range(handed) \ {sk[1] : sk \in skipped}

\* the positions of the log holding an operation op of row i
LogOf(op, i) == {e \in 1..Len(net_log) : net_log[e].op = op /\ net_log[e].row = i}

(* C14: for every row handed to the fetch step with its target file        *)
(* absent, a new identity is requested exactly once; a retrieval of that   *)
(* row is issued at most once, after that request, and never when the      *)
(* request failed; and between any two retrievals of the log there is an   *)
(* identity request.                                                       *)
C14_RotationBeforeRetrieval ==
    /\ \A i \in FetchedRows :
          /\ Cardinality(LogOf("renew", i)) = 1
          /\ Cardinality(LogOf("get", i)) <= 1
          /\ \A g \in LogOf("get", i) :
                \E r \in LogOf("renew", i) : r < g /\ ~net_log[r].raised
          /\ (\E r \in LogOf("renew", i) : net_log[r].raised) =>
                LogOf("get", i) = {}
    /\ \A g1, g2 \in 1..Len(net_log) :
          (g1 < g2 /\ net_log[g1].op = "get" /\ net_log[g2].op = "get") =>
              \E r \in (g1 + 1)..(g2 - 1) : net_log[r].op = "renew"

\* two rows were retrieved one after the other and the rotation of a third
\* failed
C14_Witness ==
    /\ Len(net_log) = 5
    /\ net_log[2].op = "get"
    /\ net_log[4].op = "get"
    /\ net_log[5].op = "renew"
    /\ net_log[5].raised
    /\ dl_pc = "raised"

\* the directory after the calls for chunks k.. have run one after the
\* other, in chunk order, on directory dir
RECURSIVE SequentialRun(_, _)
SequentialRun(k, dir) ==
    IF k > Len(file_chunks) THEN dir
    ELSE SequentialRun(k + 1, Put(dir, Written(k).name, Written(k).file))

\* output file name -> the input files that went into it
Contributing(dir) == [nm \in DOMAIN dir |-> dir[nm].files]

(* C15: in a run of the workers, no input file is in the chunks of two     *)
(* workers, no two workers write the same output file name, and when the   *)
(* run has returned, whatever the order the workers completed in, the      *)
(* batch files (names and contributing input files) are those that the     *)
(* chunks run one after the other leave.                                   *)
C15_WorkersDisjointDeterministic ==
    tr_pc \in {"parallel", "done"} =>
        /\ \A k, l \in Chunks :
              k # l => Range(file_chunks[k]) \cap Range(file_chunks[l]) = {}
        /\ \A k, l \in Chunks :
              (k # l /\ ~Written(k).raised /\ ~Written(l).raised) =>
                  Written(k).name # Written(l).name
        /\ tr_pc = "done" =>
              Contributing(output_dir) = Contributing(SequentialRun(1, Nothing))

=============================================================================
